---- MODULE Spec2Model ----
(***************************************************************************)
(* A model of the basechat client component Chatbot                        *)
(* (src/components/chatbot/index.tsx) and of the tenant-setup route         *)
(* handler POST (src/unnamed/part_000).                                     *)
(*                                                                          *)
(* React semantics used by the component model:                             *)
(*  - `hooks` holds the current value of every useState cell (queued        *)
(*    updates applied), `rendered` the values captured by the closures of   *)
(*    the last committed render;                                            *)
(*  - Render is one render: it captures the state in closures and assigns  *)
(*    pendingMessageRef.current; Flush runs the passive effects of the      *)
(*    last render later, in the order of declaration, each effect running   *)
(*    at mount or when one of its dependencies is not the same (Object.is)  *)
(*    as in the previous render;                                            *)
(*  - setter calls made by one handler are batched; network callbacks and   *)
(*    user events are handled whenever their task runs, also between a      *)
(*    state change and its render and between a render and its flush.       *)
(***************************************************************************)
EXTENDS Integers, Sequences, FiniteSets, TLC

VARIABLES
  props,         \* the tenant prop, initialModel (global state) and initMessage
  server,        \* what the endpoints answer: tenant search settings, stored transcript
  hooks,         \* the component's useState cells and useObject's isLoading
  rendered,      \* the values captured by the last render
  mounted,       \* FALSE until the first render
  flush,         \* the passive effects of the last render: pending or run
  localStorage,  \* the value stored under the key "chatSettings"
  net,           \* requests in flight: settings fetch, transcript fetch, source fetches, streams
  budget,        \* remaining user and environment events (bounds the model)
  history,       \* what the load step read from storage, what the user last chose
  db             \* tenant-setup route: tenants, profiles, current profile, requests

vars == <<props, server, hooks, rendered, mounted, flush, localStorage, net, budget, history, db>>

-----------------------------------------------------------------------------
(* Bounds *)

MaxUserChanges == 1
MaxListChanges == 1
MaxSubmits == 1
MaxRequests == 2

-----------------------------------------------------------------------------
(* Values *)

\* null / undefined of the source
NULL == [null |-> TRUE]
UNDEFINED == "undefined"

\* LLMModel values: two models that have a provider, one string that is no
\* known model (a model name left by an older version, or typed into storage)
KnownModels == {"gpt-4", "claude"}
ModelStrings == KnownModels \cup {"legacy"}

Flags == {"isBreadth", "rerankEnabled", "prioritizeRecent"}

\* SearchSettings as parsed by searchSettingsSchema
SearchSettingsValues ==
  [ isBreadth : BOOLEAN, overrideBreadth : BOOLEAN,
    rerankEnabled : BOOLEAN, overrideRerank : BOOLEAN,
    prioritizeRecent : BOOLEAN, overridePrioritizeRecent : BOOLEAN ]

-----------------------------------------------------------------------------
(* localStorage and JSON *)

\* A stored string is modelled by what JSON.parse makes of it:
\*   [tag |-> "absent"]                 getItem returns null (or "")
\*   [tag |-> "garbage"]                JSON.parse throws
\*   [tag |-> "json", val |-> v]        JSON.parse returns v, where v is
\*       [t |-> "null"], [t |-> "prim"] (a number, string or boolean) or
\*       [t |-> "obj", o |-> f, nulls |-> N] with f a function from the keys
\*       whose value is not null to their values and N the set of the keys
\*       whose value is null
NoItem == [tag |-> "absent"]
Garbage == [tag |-> "garbage"]
JsonText(v) == [tag |-> "json", val |-> v]
JsonNull == [t |-> "null"]
JsonPrim == [t |-> "prim"]
JsonObjNulls(f, nulls) == [t |-> "obj", o |-> f, nulls |-> nulls]
JsonObj(f) == JsonObjNulls(f, {})

\* JSON.stringify({isBreadth, rerankEnabled, prioritizeRecent, selectedModel}):
\* a property whose value is undefined is dropped from the text
JSONstringify(b, r, p, m) ==
  JsonText(JsonObj(
    IF m = UNDEFINED
      THEN [isBreadth |-> b, rerankEnabled |-> r, prioritizeRecent |-> p]
      ELSE [isBreadth |-> b, rerankEnabled |-> r, prioritizeRecent |-> p,
            selectedModel |-> m]))

\* settings.<key> ?? dflt on the result v of JSON.parse, for v not null:
\* a property read of a primitive or of an object lacking the key is
\* undefined, and ?? takes the default for undefined and for null (the keys
\* of v.nulls, which are not in DOMAIN v.o)
Prop(v, key, dflt) ==
  IF v.t = "obj" /\ key \in DOMAIN v.o THEN v.o[key] ELSE dflt

-----------------------------------------------------------------------------
(* Chatbot: state *)

Range(s) == {s[i] : i \in 1..Len(s)}

\* tenant.searchSettingsId of a tenant with no search-settings reference
NoSettingsId == ""

UserMessage(content) ==
  [role |-> "user", content |-> content, id |-> UNDEFINED,
   sources |-> <<>>, model |-> UNDEFINED]

AiMessage(content, id, sources, model) ==
  [role |-> "assistant", content |-> content, id |-> id,
   sources |-> sources, model |-> model]

\* modelSchema.safeParse(m).success
ModelSchemaAccepts(m) == m \in KnownModels

\* getProviderForModel(m) is not null
HasProvider(m) == m \in KnownModels

\* the initializer of the selectedModel state, lines 53-63
InitialSelectedModel(tenant, initialModel) ==
  IF Len(tenant.enabledModels) > 0
    THEN IF ModelSchemaAccepts(initialModel) /\ initialModel \in Range(tenant.enabledModels)
           THEN initialModel
           ELSE tenant.enabledModels[1]
    ELSE initialModel

\* the useState initial values of the first render
InitialHooks(p) ==
  [ localInitMessage     |-> p.initMessage,
    messages             |-> <<>>,
    sourceCache          |-> [k \in {} |-> <<>>],
    pendingMessage       |-> NULL,
    selectedModel        |-> InitialSelectedModel(p.tenant, p.initialModel),
    isBreadth            |-> FALSE,
    rerankEnabled        |-> FALSE,
    prioritizeRecent     |-> FALSE,
    tenantSearchSettings |-> NULL,
    isLoadingSettings    |-> TRUE,
    isLoading            |-> FALSE,
    fresh                |-> {} ]

InitialNet ==
  [ settingsFetch   |-> "idle",
    transcriptFetch |-> "idle",
    sourceFetch     |-> {},
    subs            |-> <<>> ]

\* a setter stores a new array or object in a state cell: the cell is not the
\* same (Object.is) as before, whatever its value; fresh holds the cells so
\* replaced since the last render
SetRef(h, cell, v) == [h EXCEPT ![cell] = v, !.fresh = @ \cup {cell}]

\* truthiness of a string that may be undefined
Truthy(str) == str # UNDEFINED /\ str # ""

\* what a render captures: the hook values and the props its effects depend on
Snapshot(h, p) == [hooks |-> h, enabledModels |-> p.tenant.enabledModels]

\* no render yet, so no effects to run
InitialFlush(p) == [pending |-> FALSE, first |-> FALSE, prev |-> Snapshot(InitialHooks(p), p)]

\* the part of the state an effect or a handler can write
World(h, ls, n) == [hooks |-> h, localStorage |-> ls, net |-> n]

-----------------------------------------------------------------------------
(* Chatbot: handleSubmit and the effects, in the order of declaration.      *)
(* r is the snapshot of the render whose closures run (r.hooks are the      *)
(* values the closure reads), w the world the effect writes.                *)

\* submit(payload) of useObject: isLoading becomes true and the request starts
Submit(w, payload) ==
  [w EXCEPT !.hooks.isLoading = TRUE,
            !.net.subs = Append(@, [state |-> "fetching", payload |-> payload,
                                    model |-> UNDEFINED, added |-> 0])]

\* handleSubmit(content, model), lines 182-199
HandleSubmit(r, w, content, model) ==
  IF ~HasProvider(model)
    THEN w
    ELSE LET payload == [content |-> content, model |-> model,
                         isBreadth |-> r.hooks.isBreadth,
                         rerankEnabled |-> r.hooks.rerankEnabled,
                         prioritizeRecent |-> r.hooks.prioritizeRecent]
             w1 == [w EXCEPT !.hooks =
                      SetRef(@, "messages", Append(r.hooks.messages, UserMessage(content)))]
         IN  Submit(w1, payload)

\* fetchTenantSearchSettings up to its first await, lines 71-82 and 105-107
FetchEffect(w, p) ==
  IF p.tenant.searchSettingsId = NoSettingsId
    THEN [w EXCEPT !.hooks.isLoadingSettings = FALSE]
    ELSE [w EXCEPT !.net.settingsFetch = "inflight"]

\* !tenantSearchSettings || tenantSearchSettings.<override>
MayOverride(tss, override) == IF tss = NULL THEN TRUE ELSE tss[override]

\* the override property of the tenant settings that governs a flag
OverrideKey(flag) ==
  CASE flag = "isBreadth" -> "overrideBreadth"
    [] flag = "rerankEnabled" -> "overrideRerank"
    [] flag = "prioritizeRecent" -> "overridePrioritizeRecent"

\* load user settings effect, lines 114-138
LoadEffectBroken(r, w, p) ==
  LET saved == w.localStorage
      tss == r.hooks.tenantSearchSettings
  IN  IF r.hooks.isLoadingSettings THEN w
      ELSE IF saved.tag # "json" THEN w
      ELSE IF saved.val.t = "null" THEN w
      ELSE LET settings == saved.val IN
        [w EXCEPT
          !.hooks.isBreadth =
             IF tss # NULL /\ MayOverride(tss, "overrideBreadth")
               THEN Prop(settings, "isBreadth", FALSE) ELSE @,
          !.hooks.rerankEnabled =
             IF tss # NULL /\ MayOverride(tss, "overrideRerank")
               THEN Prop(settings, "rerankEnabled", FALSE) ELSE @,
          !.hooks.prioritizeRecent =
             IF tss # NULL /\ MayOverride(tss, "overridePrioritizeRecent")
               THEN Prop(settings, "prioritizeRecent", FALSE) ELSE @,
          !.hooks.selectedModel = Prop(settings, "selectedModel", p.initialModel)]

LoadEffect(r, w, p) ==
  LET saved == w.localStorage
      tss == r.hooks.tenantSearchSettings
  IN  IF r.hooks.isLoadingSettings THEN w
      ELSE IF saved.tag = "absent" THEN w
      ELSE IF saved.tag = "garbage" THEN w
      ELSE IF saved.val.t = "null" THEN w
      ELSE LET settings == saved.val IN
        [w EXCEPT
          !.hooks.isBreadth =
             IF MayOverride(tss, "overrideBreadth")
               THEN Prop(settings, "isBreadth", FALSE) ELSE @,
          !.hooks.rerankEnabled =
             IF MayOverride(tss, "overrideRerank")
               THEN Prop(settings, "rerankEnabled", FALSE) ELSE @,
          !.hooks.prioritizeRecent =
             IF MayOverride(tss, "overridePrioritizeRecent")
               THEN Prop(settings, "prioritizeRecent", FALSE) ELSE @,
          !.hooks.selectedModel = Prop(settings, "selectedModel", p.initialModel)]

\* save user settings effect, lines 141-154
SaveEffect(r, w) ==
  IF r.hooks.isLoadingSettings THEN w
  ELSE [w EXCEPT !.localStorage =
          JSONstringify(r.hooks.isBreadth, r.hooks.rerankEnabled,
                        r.hooks.prioritizeRecent, r.hooks.selectedModel)]

\* stamp pending id effect, lines 201-210
StampEffect(r, w) ==
  LET pm == r.hooks.pendingMessage
      msgs == r.hooks.messages
      n == Len(msgs)
  IN  IF pm = NULL \/ r.hooks.isLoading THEN w
      ELSE IF n > 0 /\ msgs[n].role = "assistant"
        THEN [w EXCEPT
               !.hooks = [SetRef(@, "messages",
                                 Append(SubSeq(msgs, 1, n - 1), [msgs[n] EXCEPT !.id = pm.id]))
                            EXCEPT !.pendingMessage = NULL]]
        ELSE w

\* source fetch effect up to its await, lines 212-218
SourceFetchEffect(r, w) ==
  LET pm == r.hooks.pendingMessage
  IN  IF pm = NULL THEN w
      ELSE [w EXCEPT !.net.sourceFetch = @ \cup {pm.id}]

\* mount effect, lines 226-242: if (localInitMessage) is false for undefined
\* and for the empty string
MountEffect(r, w) ==
  IF Truthy(r.hooks.localInitMessage)
    THEN [HandleSubmit(r, w, r.hooks.localInitMessage, r.hooks.selectedModel)
            EXCEPT !.hooks.localInitMessage = UNDEFINED]
    ELSE [w EXCEPT !.net.transcriptFetch = "inflight"]

\* enabled-model effect, lines 260-266
EnabledModelEffectBroken(r, w) ==
  IF r.hooks.selectedModel \notin Range(r.enabledModels)
    THEN [w EXCEPT !.hooks.selectedModel =
            IF Len(r.enabledModels) > 0 THEN r.enabledModels[Len(r.enabledModels)]
            ELSE UNDEFINED]
    ELSE w

EnabledModelEffect(r, w) ==
  IF r.hooks.selectedModel \notin Range(r.enabledModels)
    THEN [w EXCEPT !.hooks.selectedModel =
            IF Len(r.enabledModels) > 0 THEN r.enabledModels[1] ELSE UNDEFINED]
    ELSE w

\* whether one of the named hook values of render r is not the same
\* (Object.is) as in the render prev before it: another value, or an array or
\* object stored anew in between
Changed(prev, r, names) ==
  \E k \in names : prev.hooks[k] # r.hooks[k] \/ k \in r.hooks.fresh

\* The effects of the render r, prev being the render before it (first: the
\* mount, where every effect runs).
RunEffects(first, prev, r, w0, p) ==
  LET w1 == IF first THEN FetchEffect(w0, p) ELSE w0
      w2 == IF first \/ Changed(prev, r, {"isLoadingSettings", "tenantSearchSettings"})
              THEN LoadEffect(r, w1, p) ELSE w1
      w3 == IF first \/ Changed(prev, r, {"isBreadth", "rerankEnabled", "prioritizeRecent",
                                          "selectedModel", "isLoadingSettings"})
              THEN SaveEffect(r, w2) ELSE w2
      w4 == IF first \/ Changed(prev, r, {"pendingMessage", "isLoading", "messages"})
              THEN StampEffect(r, w3) ELSE w3
      w5 == IF first \/ Changed(prev, r, {"pendingMessage"})
              THEN SourceFetchEffect(r, w4) ELSE w4
      w6 == IF first THEN MountEffect(r, w5) ELSE w5
      w7 == IF first \/ Changed(prev, r, {"selectedModel"})
                     \/ prev.enabledModels # r.enabledModels
              THEN EnabledModelEffect(r, w6) ELSE w6
  IN  w7

\* a render is pending: a state cell or a prop is not the same as in the
\* last render
NeedsRender ==
  \/ hooks.fresh # {}
  \/ rendered # Snapshot([hooks EXCEPT !.fresh = rendered.hooks.fresh], props)

\* the load effect of render r runs and passes its isLoadingSettings guard
LoadReads(first, prev, r) ==
  /\ first \/ Changed(prev, r, {"isLoadingSettings", "tenantSearchSettings"})
  /\ ~r.hooks.isLoadingSettings

\* the load effect of render r, reading the stored value saved, assigns the flag
LoadWrites(r, saved, flag) ==
  /\ saved.tag = "json" /\ saved.val.t # "null"
  /\ MayOverride(r.hooks.tenantSearchSettings, OverrideKey(flag))

\* One render: the function body runs with the current state, its closures
\* capture it and line 51 assigns the ref. React runs the passive effects of
\* the render before it rendering again.
Render ==
  /\ ~flush.pending
  /\ ~mounted \/ NeedsRender
  /\ rendered' = Snapshot(hooks, props)
  /\ hooks' = [hooks EXCEPT !.fresh = {}]
  /\ flush' = [pending |-> TRUE, first |-> ~mounted, prev |-> rendered]
  /\ mounted' = TRUE
  /\ UNCHANGED <<props, server, localStorage, net, budget, history, db>>

\* The passive effects of the last render run, with the closures of that
\* render, on the state as it is by now.
Flush ==
  /\ flush.pending
  /\ LET w == RunEffects(flush.first, flush.prev, rendered,
                         World(hooks, localStorage, net), props)
     IN  /\ hooks' = w.hooks
         /\ localStorage' = w.localStorage
         /\ net' = w.net
  /\ flush' = [pending |-> FALSE, first |-> FALSE, prev |-> rendered]
  /\ history' = [history EXCEPT
        !.loaded = IF LoadReads(flush.first, flush.prev, rendered)
                     THEN localStorage ELSE @,
        !.user = [f \in Flags |->
                    IF LoadReads(flush.first, flush.prev, rendered)
                       /\ LoadWrites(rendered, localStorage, f)
                      THEN {} ELSE @[f]],
        !.calls = IF flush.first /\ Truthy(rendered.hooks.localInitMessage)
                    THEN @ + 1 ELSE @]
  /\ UNCHANGED <<props, server, rendered, mounted, budget, db>>

\* a settled state: the component has rendered, its effects have run and no
\* render is pending (no event waits for it)
Idle == mounted /\ ~flush.pending /\ ~NeedsRender

-----------------------------------------------------------------------------
(* Chatbot: the tenant-settings fetch resolves *)

\* res.ok and searchSettingsSchema.parse succeeds, lines 84-98 and 105-107
ApplyTenantSettings(h, settings) ==
  [SetRef(h, "tenantSearchSettings", settings) EXCEPT
    !.isBreadth = IF ~settings.overrideBreadth THEN settings.isBreadth ELSE @,
    !.rerankEnabled = IF ~settings.overrideRerank THEN settings.rerankEnabled ELSE @,
    !.prioritizeRecent =
       IF ~settings.overridePrioritizeRecent THEN settings.prioritizeRecent ELSE @,
    !.isLoadingSettings = FALSE]

FetchOk(settings) ==
  /\ net.settingsFetch = "inflight"
  /\ hooks' = ApplyTenantSettings(hooks, settings)
  /\ net' = [net EXCEPT !.settingsFetch = "ok"]
  /\ UNCHANGED <<props, server, rendered, mounted, flush, localStorage, budget, history, db>>

\* res.status === 404 (lines 99-102), any other status that is not ok, and a
\* thrown fetch, res.json() or schema parse (lines 103-104): only the finally
\* block writes state
FetchNotOkBroken(outcome) ==
  /\ net.settingsFetch = "inflight"
  /\ hooks' = hooks
  /\ net' = [net EXCEPT !.settingsFetch = outcome]
  /\ UNCHANGED <<props, server, rendered, mounted, flush, localStorage, budget, history, db>>

\* the outcomes of a tenant-settings fetch that did not succeed
FetchFailures == {"404", "500", "throws"}

FetchNotOk(outcome) ==
  /\ net.settingsFetch = "inflight"
  /\ hooks' = [hooks EXCEPT !.isLoadingSettings = FALSE]
  /\ net' = [net EXCEPT !.settingsFetch = outcome]
  /\ UNCHANGED <<props, server, rendered, mounted, flush, localStorage, budget, history, db>>

-----------------------------------------------------------------------------
(* Chatbot: the user changes a setting in ChatInput, lines 308-320 *)

\* ChatInput offers the switch of a flag only when the tenant settings it was
\* rendered with permit the override
CanToggle(flag) == MayOverride(rendered.hooks.tenantSearchSettings, OverrideKey(flag))

\* onBreadthChange / onRerankChange / onPrioritizeRecentChange: the switch
\* shows the rendered value and a click asks for the other one
UserSetFlag(flag, v) ==
  /\ mounted
  /\ budget.user > 0
  /\ CanToggle(flag)
  /\ v # rendered.hooks[flag]
  /\ hooks' = [hooks EXCEPT ![flag] = v]
  /\ budget' = [budget EXCEPT !.user = @ - 1]
  /\ history' = [history EXCEPT !.user[flag] = {v}]
  /\ UNCHANGED <<props, server, rendered, mounted, flush, localStorage, net, db>>

\* onModelChange: ChatInput offers the models of enabledModels
UserSetModel(m) ==
  /\ mounted
  /\ budget.user > 0
  /\ m \in Range(rendered.enabledModels)
  /\ m # rendered.hooks.selectedModel
  /\ hooks' = [hooks EXCEPT !.selectedModel = m]
  /\ budget' = [budget EXCEPT !.user = @ - 1]
  /\ UNCHANGED <<props, server, rendered, mounted, flush, localStorage, net, history, db>>

\* the parent renders the component with another tenant.enabledModels
EnabledModelsChange(list) ==
  /\ mounted
  /\ budget.list > 0
  /\ list # props.tenant.enabledModels
  /\ props' = [props EXCEPT !.tenant.enabledModels = list]
  /\ budget' = [budget EXCEPT !.list = @ - 1]
  /\ UNCHANGED <<server, hooks, rendered, mounted, flush, localStorage, net, history, db>>

-----------------------------------------------------------------------------
(* Chatbot: chat orchestration, lines 156-224 and 226-258 *)

\* the x-message-id the server assigns to the i-th submission, and the
\* message of the object its stream delivers
MsgIds == <<"m1", "m2", "m3", "m4", "m5">>
MsgId(i) == MsgIds[i]
Replies == <<"reply-1", "reply-2", "reply-3", "reply-4", "reply-5">>
Reply(i) == Replies[i]

\* the x-model header of the response to the i-th submission: the server
\* resolves the model the payload asks for
ResolvedModel(i) == IF i \in 1..Len(net.subs) THEN net.subs[i].payload.model ELSE UNDEFINED

\* the citations the source endpoint returns for message id, and the body of
\* its answer: { id, sources } of the message asked for
ServerSources(id) == <<id>>
SourceResponse(id) == [id |-> id, sources |-> ServerSources(id)]

\* ChatInput calls handleSubmit with the text typed and the selected model
UserSubmit(content) ==
  /\ mounted
  /\ budget.submits > 0
  /\ LET w == HandleSubmit(rendered, World(hooks, localStorage, net),
                           content, rendered.hooks.selectedModel)
     IN  /\ hooks' = w.hooks
         /\ net' = w.net
  /\ budget' = [budget EXCEPT !.submits = @ - 1]
  /\ history' = [history EXCEPT !.calls = @ + 1]
  /\ UNCHANGED <<props, server, rendered, mounted, flush, localStorage, db>>

\* onError: console.error; useObject then ends loading, line 172
OnErrorBroken(h) ==
  [SetRef(h, "messages", Append(h.messages, AiMessage("error", UNDEFINED, <<>>, UNDEFINED)))
     EXCEPT !.isLoading = FALSE]

OnError(h) == [h EXCEPT !.isLoading = FALSE]

\* onFinish, lines 173-179; useObject ends loading before it calls onFinish.
\* valid: event.object is defined; pmRef: pendingMessageRef.current
OnFinishBroken(h, pmRef, valid, content) ==
  [SetRef(h, "messages",
          Append(h.messages, AiMessage(content, UNDEFINED, <<>>,
                               IF pmRef = NULL THEN UNDEFINED ELSE pmRef.model)))
     EXCEPT !.isLoading = FALSE]

OnFinish(h, pmRef, valid, content) ==
  IF ~valid
    THEN [h EXCEPT !.isLoading = FALSE]
    ELSE [SetRef(h, "messages",
                 Append(h.messages, AiMessage(content, UNDEFINED, <<>>,
                                      IF pmRef = NULL THEN UNDEFINED ELSE pmRef.model)))
            EXCEPT !.isLoading = FALSE]

\* the states of a submission whose request or stream failed: the fetch
\* threw, assert(id) threw, the response was not ok, the stream broke
FailedStates == {"failed-fetch", "failed-assert", "failed-status", "failed-stream"}

\* middleware, lines 159-171: the response of submission i arrives with the
\* headers x-message-id (hasId) and x-model (model); a response that is not ok
\* makes useObject throw after the middleware has returned
ResponseHeadersBroken(i, hasId, model, ok) ==
  /\ i \in 1..Len(net.subs)
  /\ net.subs[i].state = "fetching"
  /\ LET h1 == SetRef(hooks, "pendingMessage",
                      [id |-> IF hasId THEN MsgId(i) ELSE UNDEFINED, model |-> model])
     IN  IF hasId /\ ok
           THEN /\ hooks' = h1
                /\ net' = [net EXCEPT !.subs[i].state = "streaming",
                                      !.subs[i].model = model]
           ELSE /\ hooks' = OnError(h1)
                /\ net' = [net EXCEPT !.subs[i].state =
                                        IF hasId THEN "failed-status" ELSE "failed-assert"]
  /\ UNCHANGED <<props, server, rendered, mounted, flush, localStorage, budget, history, db>>

ResponseHeaders(i, hasId, model, ok) ==
  /\ i \in 1..Len(net.subs)
  /\ net.subs[i].state = "fetching"
  /\ IF ~hasId
       THEN /\ hooks' = OnError(hooks)
            /\ net' = [net EXCEPT !.subs[i].state = "failed-assert"]
       ELSE LET h1 == SetRef(hooks, "pendingMessage", [id |-> MsgId(i), model |-> model])
            IN  IF ok
                  THEN /\ hooks' = h1
                       /\ net' = [net EXCEPT !.subs[i].state = "streaming",
                                             !.subs[i].model = model]
                  ELSE /\ hooks' = OnError(h1)
                       /\ net' = [net EXCEPT !.subs[i].state = "failed-status",
                                             !.subs[i].model = model]
  /\ UNCHANGED <<props, server, rendered, mounted, flush, localStorage, budget, history, db>>

\* the fetch of submission i throws (network error)
SubmitFetchThrows(i) ==
  /\ i \in 1..Len(net.subs)
  /\ net.subs[i].state = "fetching"
  /\ hooks' = OnError(hooks)
  /\ net' = [net EXCEPT !.subs[i].state = "failed-fetch"]
  /\ UNCHANGED <<props, server, rendered, mounted, flush, localStorage, budget, history, db>>

\* the stream of submission i ends: useObject validates the object and calls onFinish
StreamClose(i, valid) ==
  /\ i \in 1..Len(net.subs)
  /\ net.subs[i].state = "streaming"
  /\ hooks' = OnFinish(hooks, rendered.hooks.pendingMessage, valid, Reply(i))
  /\ net' = [net EXCEPT !.subs[i].state = IF valid THEN "done" ELSE "done-empty",
                        !.subs[i].added = @ + (Len(hooks'.messages) - Len(hooks.messages))]
  /\ UNCHANGED <<props, server, rendered, mounted, flush, localStorage, budget, history, db>>

\* the stream of submission i breaks (network or parse error): onError
StreamError(i) ==
  /\ i \in 1..Len(net.subs)
  /\ net.subs[i].state = "streaming"
  /\ hooks' = OnError(hooks)
  /\ net' = [net EXCEPT !.subs[i].state = "failed-stream",
                        !.subs[i].added = @ + (Len(hooks'.messages) - Len(hooks.messages))]
  /\ UNCHANGED <<props, server, rendered, mounted, flush, localStorage, budget, history, db>>

\* setSourceCache((prev) => ({ ...prev, [json.id]: json.sources })), line 222
PutSources(cache, id, sources) ==
  [k \in DOMAIN cache \cup {id} |-> IF k = id THEN sources ELSE cache[k]]

\* the source fetch for message id answers with the body json, lines
\* 219-222: the sources are stored under json.id
SourceFetched(id, ok, json) ==
  /\ id \in net.sourceFetch
  /\ hooks' = IF ok
                THEN SetRef(hooks, "sourceCache",
                            PutSources(hooks.sourceCache, json.id, json.sources))
                ELSE hooks
  /\ net' = [net EXCEPT !.sourceFetch = @ \ {id}]
  /\ UNCHANGED <<props, server, rendered, mounted, flush, localStorage, budget, history, db>>

\* the transcript fetch of the mount effect answers, lines 235-238
TranscriptLoaded(ok) ==
  /\ net.transcriptFetch = "inflight"
  /\ hooks' = IF ok THEN SetRef(hooks, "messages", server.transcript) ELSE hooks
  /\ net' = [net EXCEPT !.transcriptFetch = IF ok THEN "ok" ELSE "failed"]
  /\ UNCHANGED <<props, server, rendered, mounted, flush, localStorage, budget, history, db>>

\* the names a plain object inherits from Object.prototype, and the value
\* read under such a name from an object that has no property of its own
\* with it: a function (or the prototype object), which is truthy and is no
\* list of sources
ObjectPrototypeKeys ==
  {"constructor", "hasOwnProperty", "isPrototypeOf", "propertyIsEnumerable",
   "toLocaleString", "toString", "valueOf", "__defineGetter__", "__defineSetter__",
   "__lookupGetter__", "__lookupSetter__", "__proto__"}
Inherited(key) == <<"Object.prototype", key>>

\* messagesWithSources, lines 252-258:
\* m.role === "assistant" && m.id && sourceCache[m.id] ? {...m, sources:
\* sourceCache[m.id]} : m, line 256: tested by truthiness; a cached list is
\* an array, which is truthy also when empty
MergeSourcesBroken(m, cache) ==
  IF m.role = "assistant" /\ DOMAIN cache # {}
    THEN [m EXCEPT !.sources = cache[CHOOSE k \in DOMAIN cache : TRUE]]
    ELSE m

MergeSources(m, cache) ==
  IF m.role = "assistant" /\ Truthy(m.id)
    THEN IF m.id \in DOMAIN cache THEN [m EXCEPT !.sources = cache[m.id]]
         ELSE IF m.id \in ObjectPrototypeKeys THEN [m EXCEPT !.sources = Inherited(m.id)]
         ELSE m
    ELSE m

MessagesWithSources(messages, cache) ==
  LET shown == SelectSeq(messages, LAMBDA m : m.role \in {"user", "assistant"})
  IN  [i \in 1..Len(shown) |-> MergeSources(shown[i], cache)]

-----------------------------------------------------------------------------
(* Tenant setup: POST of src/unnamed/part_000 *)

Users == {"u1", "u2"}
NoSession == "none"
NoProfile == 0

\* A name is the sequence of the code points of its characters.
\* String.prototype.trim strips the ECMAScript white space and line
\* terminators: TAB, LF, VT, FF, CR, SPACE, NBSP, the other space separators
\* (Zs), LS, PS and the BOM.
Whitespace ==
  {9, 10, 11, 12, 13, 32, 160, 5760, 8232, 8233, 8239, 8287, 12288, 65279}
    \cup (8192..8202)

\* the names posted: empty, a tab, "a", and "a" between a space and NBSP, LF
Names == {<<>>, <<9>>, <<97>>, <<32, 97, 160, 10>>}

\* a request body: an object with a string name, or one without
Bodies == {[name |-> n] : n \in Names} \cup {[other |-> TRUE]}

RECURSIVE TrimStart(_), TrimEnd(_)
TrimStart(s) ==
  IF Len(s) > 0 /\ Head(s) \in Whitespace THEN TrimStart(Tail(s)) ELSE s
TrimEnd(s) ==
  IF Len(s) > 0 /\ s[Len(s)] \in Whitespace THEN TrimEnd(SubSeq(s, 1, Len(s) - 1)) ELSE s

\* String.prototype.trim
Trim(s) == TrimEnd(TrimStart(s))

\* setupSchema.parse(body), lines 7-9: the parsed payload, or a ZodError
SetupSchemaParseBroken(body) ==
  IF "name" \in DOMAIN body
    THEN [ok |-> TRUE, name |-> Trim(body.name)]
    ELSE [ok |-> FALSE, name |-> <<>>]

SetupSchemaParse(body) ==
  IF "name" \in DOMAIN body /\ Len(Trim(body.name)) >= 1
    THEN [ok |-> TRUE, name |-> Trim(body.name)]
    ELSE [ok |-> FALSE, name |-> <<>>]

Requests == 1..Len(db.requests)

\* a client sends POST with the given session (a user, or none) and body
NewRequest(session, body) ==
  /\ Len(db.requests) < MaxRequests
  /\ db' = [db EXCEPT !.requests =
              Append(@, [pc |-> "session", session |-> session, body |-> body,
                         name |-> <<>>, tenantId |-> 0, profileId |-> 0,
                         response |-> [status |-> "pending", id |-> 0]])]
  /\ UNCHANGED <<props, server, hooks, rendered, mounted, flush, localStorage, net, budget, history>>

\* const session = await requireSession(), line 12: a request without a
\* valid session is rejected
RequireSessionBroken(r) ==
  /\ r \in Requests
  /\ db.requests[r].pc = "session"
  /\ db' = [db EXCEPT !.requests[r].pc = "parse"]
  /\ UNCHANGED <<props, server, hooks, rendered, mounted, flush, localStorage, net, budget, history>>

RequireSession(r) ==
  /\ r \in Requests
  /\ db.requests[r].pc = "session"
  /\ db' = IF db.requests[r].session = NoSession
             THEN [db EXCEPT !.requests[r].pc = "done",
                             !.requests[r].response = [status |-> "unauthenticated", id |-> 0]]
             ELSE [db EXCEPT !.requests[r].pc = "parse"]
  /\ UNCHANGED <<props, server, hooks, rendered, mounted, flush, localStorage, net, budget, history>>

\* const payload = setupSchema.parse(await request.json()), line 13: a
\* ZodError ends the request with an error response
ParsePayload(r) ==
  /\ r \in Requests
  /\ db.requests[r].pc = "parse"
  /\ LET parsed == SetupSchemaParse(db.requests[r].body)
     IN  db' = IF parsed.ok
                 THEN [db EXCEPT !.requests[r].pc = "create",
                                 !.requests[r].name = parsed.name]
                 ELSE [db EXCEPT !.requests[r].pc = "done",
                                 !.requests[r].response = [status |-> "ZodError", id |-> 0]]
  /\ UNCHANGED <<props, server, hooks, rendered, mounted, flush, localStorage, net, budget, history>>

\* createTenant(userId, name): one new tenant and one new profile of the
\* user in that tenant
CreateTenant(d, userId, name) ==
  LET tenantId == Cardinality(d.tenants) + 1
      profileId == Cardinality(d.profiles) + 1
  IN  [ db |-> [d EXCEPT
                  !.tenants = @ \cup {[id |-> tenantId, name |-> name]},
                  !.profiles = @ \cup {[id |-> profileId, tenantId |-> tenantId,
                                        userId |-> userId]}],
        tenantId |-> tenantId,
        profileId |-> profileId ]

\* setCurrentProfileId(userId, profileId)
SetCurrentProfileId(d, userId, profileId) ==
  [d EXCEPT !.current[userId] = profileId]

\* const { profileId, tenantId } = await createTenant(session.user.id, payload.name), line 14
CreateStep(r) ==
  /\ r \in Requests
  /\ db.requests[r].pc = "create"
  /\ LET made == CreateTenant(db, db.requests[r].session, db.requests[r].name)
     IN  db' = [made.db EXCEPT !.requests[r].pc = "setCurrent",
                               !.requests[r].tenantId = made.tenantId,
                               !.requests[r].profileId = made.profileId]
  /\ UNCHANGED <<props, server, hooks, rendered, mounted, flush, localStorage, net, budget, history>>

\* await setCurrentProfileId(session.user.id, profileId), line 16
SetCurrentStepBroken(r) ==
  /\ r \in Requests
  /\ db.requests[r].pc = "setCurrent"
  /\ db' = [db EXCEPT !.requests[r].pc = "respond"]
  /\ UNCHANGED <<props, server, hooks, rendered, mounted, flush, localStorage, net, budget, history>>

SetCurrentStep(r) ==
  /\ r \in Requests
  /\ db.requests[r].pc = "setCurrent"
  /\ db' = [SetCurrentProfileId(db, db.requests[r].session, db.requests[r].profileId)
              EXCEPT !.requests[r].pc = "respond",
                     !.everCurrent = @ \cup {db.requests[r].profileId}]
  /\ UNCHANGED <<props, server, hooks, rendered, mounted, flush, localStorage, net, budget, history>>

\* return Response.json({ id: tenantId }), line 18
Respond(r) ==
  /\ r \in Requests
  /\ db.requests[r].pc = "respond"
  /\ db' = [db EXCEPT !.requests[r].pc = "done",
                      !.requests[r].response = [status |-> "ok", id |-> db.requests[r].tenantId],
                      !.returned = Append(@, r)]
  /\ UNCHANGED <<props, server, hooks, rendered, mounted, flush, localStorage, net, budget, history>>

-----------------------------------------------------------------------------
(* Initial states *)

\* the objects a chatSettings text can hold: each flag absent or a boolean,
\* selectedModel absent or one of the given strings
StoredObjects(models) ==
  LET flagParts == UNION {[K -> BOOLEAN] : K \in SUBSET Flags}
      modelParts == {[k \in {} |-> ""]} \cup {[selectedModel |-> m] : m \in models}
  IN  {f @@ g : f \in flagParts, g \in modelParts}

\* objects with null properties
StoredNulls ==
  { JsonObjNulls([rerankEnabled |-> TRUE], {"isBreadth", "selectedModel"}),
    JsonObjNulls([isBreadth |-> TRUE], {"prioritizeRecent"}) }

StoredValues(models) ==
  {NoItem, Garbage, JsonText(JsonNull), JsonText(JsonPrim)}
    \cup {JsonText(JsonObj(o)) : o \in StoredObjects(models)}
    \cup {JsonText(v) : v \in StoredNulls}

\* enabledModels lists: no repeated entry
ModelLists ==
  {<<>>} \cup {<<m>> : m \in KnownModels}
         \cup {a \in KnownModels \X KnownModels : a[1] # a[2]}

\* nothing read from storage yet, no flag chosen by the user since the load
\* step last assigned it, no call of handleSubmit yet
NotLoaded == [tag |-> "unread"]
InitHistory == [loaded |-> NotLoaded, user |-> [f \in Flags |-> {}], calls |-> 0]

\* a transcript stored by an earlier session, as the messages endpoint
\* returns it: a system entry, a user entry and an assistant entry with the
\* id the server gave it and its own sources
StoredTranscript ==
  << [role |-> "system", content |-> "sys", id |-> UNDEFINED, sources |-> <<>>,
      model |-> UNDEFINED],
     UserMessage("earlier"),
     AiMessage("earlier-reply", "m0", <<"s0">>, "claude") >>

InitDb ==
  [ tenants  |-> {},
    profiles |-> {},
    current  |-> [u \in Users |-> NoProfile],
    requests |-> <<>>,
    returned |-> <<>>,       \* the requests answered with a tenant id, in order
    everCurrent |-> {} ]     \* the profiles setCurrentProfileId was called with

InitComponentWith(p, ls, b, transcript) ==
  /\ props = p
  /\ server = [transcript |-> transcript]
  /\ hooks = InitialHooks(p)
  /\ rendered = Snapshot(InitialHooks(p), p)
  /\ mounted = FALSE
  /\ flush = InitialFlush(p)
  /\ localStorage = ls
  /\ net = InitialNet
  /\ budget = b
  /\ history = InitHistory
  /\ db = InitDb

InitComponent(p, ls, b) == InitComponentWith(p, ls, b, <<>>)

\* Settings resolution: any tenant settings reference, any stored flags (a
\* stored selectedModel is the subject of InitModel)
InitSettings ==
  \E sid \in {NoSettingsId, "ss-1"}, ls \in StoredValues({}) :
    InitComponent(
      [tenant |-> [enabledModels |-> <<"gpt-4", "claude">>, searchSettingsId |-> sid],
       initialModel |-> "gpt-4", initMessage |-> UNDEFINED],
      ls,
      [user |-> MaxUserChanges, list |-> 0, submits |-> 0])

NextSettings ==
  \/ Render
  \/ Flush
  \/ \E settings \in SearchSettingsValues : FetchOk(settings)
  \/ \E outcome \in FetchFailures : FetchNotOk(outcome)
  \/ \E flag \in Flags, v \in BOOLEAN : UserSetFlag(flag, v)

SettingsSpec == InitSettings /\ [][NextSettings]_vars

\* the tenant-settings fetch has an outcome: the response arrives or the
\* fetch throws
FetchOutcome ==
  \/ \E settings \in SearchSettingsValues : FetchOk(settings)
  \/ \E outcome \in FetchFailures : FetchNotOk(outcome)

\* React renders every pending update and runs the effects of every render,
\* and the fetch in flight has an outcome
SettingsLiveSpec ==
  SettingsSpec /\ WF_vars(Render) /\ WF_vars(Flush) /\ WF_vars(FetchOutcome)

\* Model selection: any enabled-model list, any initial model, any stored
\* selectedModel; the flags are left at their defaults
InitModel ==
  \E sid \in {NoSettingsId, "ss-1"}, list \in ModelLists, im \in ModelStrings,
     ls \in {NoItem, Garbage, JsonText(JsonNull), JsonText(JsonPrim),
             JsonText(JsonObj([isBreadth |-> FALSE])),
             JsonText(JsonObjNulls([isBreadth |-> TRUE], {"selectedModel"}))}
            \cup {JsonText(JsonObj([selectedModel |-> m])) : m \in ModelStrings} :
    InitComponent(
      [tenant |-> [enabledModels |-> list, searchSettingsId |-> sid],
       initialModel |-> im, initMessage |-> UNDEFINED],
      ls,
      [user |-> MaxUserChanges, list |-> MaxListChanges, submits |-> 0])

NextModel ==
  \/ Render
  \/ Flush
  \/ FetchNotOk("404")
  \/ \E m \in KnownModels : UserSetModel(m)
  \/ \E list \in ModelLists : EnabledModelsChange(list)

\* React renders every pending update and runs the effects of every render
ModelSpec == InitModel /\ [][NextModel]_vars /\ WF_vars(Render) /\ WF_vars(Flush)

\* Chat orchestration: with or without an initial message and a stored
\* transcript; settings at their defaults
InitChat ==
  \E cfg \in {[list |-> <<>>, im |-> "legacy"],
                [list |-> <<"gpt-4", "claude">>, im |-> "gpt-4"]},
     msg \in {UNDEFINED, "", "init"}, transcript \in {<<>>, StoredTranscript} :
    InitComponentWith(
      [tenant |-> [enabledModels |-> cfg.list, searchSettingsId |-> NoSettingsId],
       initialModel |-> cfg.im, initMessage |-> msg],
      NoItem,
      [user |-> 0, list |-> 0, submits |-> MaxSubmits],
      transcript)

NextChat ==
  \/ Render
  \/ Flush
  \/ UserSubmit("hello")
  \/ \E i \in 1..(MaxSubmits + 1), hasId \in BOOLEAN, ok \in BOOLEAN :
       ResponseHeaders(i, hasId, ResolvedModel(i), ok)
  \/ \E i \in 1..(MaxSubmits + 1) : SubmitFetchThrows(i)
  \/ \E i \in 1..(MaxSubmits + 1), valid \in BOOLEAN : StreamClose(i, valid)
  \/ \E i \in 1..(MaxSubmits + 1) : StreamError(i)
  \/ \E id \in Range(MsgIds), ok \in BOOLEAN : SourceFetched(id, ok, SourceResponse(id))
  \/ \E ok \in BOOLEAN : TranscriptLoaded(ok)

ChatSpec == InitChat /\ [][NextChat]_vars

\* Submissions of a tenant with search settings: the settings the
\* tenant-settings endpoint answers with are fixed from the start
\* (server.settings), with or without an initial message
InitPayload ==
  \E settings \in SearchSettingsValues, msg \in {UNDEFINED, "", "init"} :
    /\ props = [tenant |-> [enabledModels |-> <<"gpt-4", "claude">>,
                            searchSettingsId |-> "ss-1"],
                initialModel |-> "gpt-4", initMessage |-> msg]
    /\ server = [transcript |-> <<>>, settings |-> settings]
    /\ hooks = InitialHooks(props)
    /\ rendered = Snapshot(InitialHooks(props), props)
    /\ mounted = FALSE
    /\ flush = InitialFlush(props)
    /\ localStorage = NoItem
    /\ net = InitialNet
    /\ budget = [user |-> MaxUserChanges, list |-> 0, submits |-> MaxSubmits]
    /\ history = InitHistory
    /\ db = InitDb

NextPayload ==
  \/ Render
  \/ Flush
  \/ FetchOk(server.settings)
  \/ \E outcome \in FetchFailures : FetchNotOk(outcome)
  \/ \E flag \in Flags, v \in BOOLEAN : UserSetFlag(flag, v)
  \/ UserSubmit("hello")

PayloadSpec == InitPayload /\ [][NextPayload]_vars

\* Tenant setup: requests of any user, with or without a session, with any body
InitSetup ==
  InitComponent(
    [tenant |-> [enabledModels |-> <<>>, searchSettingsId |-> NoSettingsId],
     initialModel |-> "gpt-4", initMessage |-> UNDEFINED],
    NoItem,
    [user |-> 0, list |-> 0, submits |-> 0])

NextSetup ==
  \/ \E session \in Users \cup {NoSession}, body \in Bodies : NewRequest(session, body)
  \/ \E r \in 1..MaxRequests : RequireSession(r)
  \/ \E r \in 1..MaxRequests : ParsePayload(r)
  \/ \E r \in 1..MaxRequests : CreateStep(r)
  \/ \E r \in 1..MaxRequests : SetCurrentStep(r)
  \/ \E r \in 1..MaxRequests : Respond(r)

SetupSpec == InitSetup /\ [][NextSetup]_vars

-----------------------------------------------------------------------------
(* Claims on settings resolution (SettingsSpec) *)

\* the flag's value is fixed by the fetched tenant settings tss
FixedByTenant(tss, flag) == tss # NULL /\ ~tss[OverrideKey(flag)]

\* the value the load step read for the flag, none when the text held no such flag
StoredFlag(flag) ==
  IF history.loaded.tag = "json" /\ history.loaded.val.t = "obj"
     /\ flag \in DOMAIN history.loaded.val.o
    THEN {history.loaded.val.o[flag]}
    ELSE {}

\* the effects of the first render have run
EffectsRan == mounted /\ ~(flush.pending /\ flush.first)

\* the load and persist steps of the render that follows the end of loading have run
Resolved == mounted /\ ~rendered.hooks.isLoadingSettings /\ ~flush.pending

\* C1 (as claimed): once the tenant-settings fetch has succeeded, every flag
\* whose override the tenant disables has the tenant's value, in the component
\* state and in the rendered state, whatever chatSettings holds and whichever
\* of the fetch, load and persist steps have run.
C1_Claim ==
  \A flag \in Flags :
    /\ FixedByTenant(hooks.tenantSearchSettings, flag)
         => hooks[flag] = hooks.tenantSearchSettings[flag]
    /\ FixedByTenant(rendered.hooks.tenantSearchSettings, flag)
         => rendered.hooks[flag] = rendered.hooks.tenantSearchSettings[flag]

\* C2 (as claimed): after resolution, a flag the tenant lets the user override
\* and the user has not touched has the stored value when one is stored, and
\* the tenant's value for the flag when chatSettings is absent or lacks it.
C2_Claim ==
  \A flag \in Flags :
    ( /\ Resolved
      /\ hooks.tenantSearchSettings # NULL
      /\ hooks.tenantSearchSettings[OverrideKey(flag)]
      /\ history.user[flag] = {}
      /\ history.loaded.tag = "absent"
           \/ (history.loaded.tag = "json" /\ history.loaded.val.t = "obj") )
    => hooks[flag] = IF StoredFlag(flag) # {}
                       THEN CHOOSE v \in StoredFlag(flag) : TRUE
                       ELSE hooks.tenantSearchSettings[flag]

\* C3 (as claimed): no step replaces a flag value stored in chatSettings by
\* another value before the load step has applied the stored values.
C3_Claim ==
  [][ \A flag \in Flags :
        ( /\ localStorage.tag = "json" /\ localStorage.val.t = "obj"
          /\ flag \in DOMAIN localStorage.val.o
          /\ MayOverride(hooks.tenantSearchSettings, OverrideKey(flag))
          /\ localStorage'.val.o[flag] # localStorage.val.o[flag] )
        => history.loaded # NotLoaded ]_vars

\* the value a user-controlled flag must have once the load step has run
UserControlled(flag) ==
  IF history.user[flag] # {} THEN CHOOSE v \in history.user[flag] : TRUE
  ELSE IF StoredFlag(flag) # {} THEN CHOOSE v \in StoredFlag(flag) : TRUE
  ELSE FALSE

\* C4: for a tenant with no search-settings reference no tenant-settings
\* fetch is issued and no tenant settings are ever recorded, loading is
\* complete as soon as the mount effects have run, and from the load step on
\* each flag has the last value the user chose, else the stored value.
C4_NoSettingsReference ==
  props.tenant.searchSettingsId = NoSettingsId =>
    /\ net.settingsFetch = "idle"
    /\ hooks.tenantSearchSettings = NULL
    /\ EffectsRan => ~hooks.isLoadingSettings
    /\ Resolved => history.loaded # NotLoaded
    /\ history.loaded # NotLoaded => \A flag \in Flags : hooks[flag] = UserControlled(flag)

\* C4 witness: a stored isBreadth = true was loaded and the user then switched
\* rerankEnabled on, with no tenant settings reference.
C4_Witness ==
  /\ props.tenant.searchSettingsId = NoSettingsId
  /\ Resolved
  /\ StoredFlag("isBreadth") = {TRUE} /\ hooks.isBreadth
  /\ StoredFlag("rerankEnabled") = {FALSE}
  /\ history.user["rerankEnabled"] = {TRUE} /\ hooks.rerankEnabled
  /\ ~NeedsRender
  /\ localStorage = JSONstringify(TRUE, TRUE, hooks.prioritizeRecent, hooks.selectedModel)

\* the value the load step gives a flag the user may override: the stored
\* value, false when a stored JSON value lacks it, the value it had (prior)
\* when nothing readable is stored
LoadedFlag(loaded, flag, prior) ==
  IF loaded.tag = "json" /\ loaded.val.t # "null"
    THEN Prop(loaded.val, flag, FALSE)
    ELSE prior

\* C13: whatever the outcome of the tenant-settings fetch, loading has ended
\* once the fetch has its outcome, and it eventually ends and stays ended;
\* after an outcome that is no success no tenant settings are recorded, the
\* load step gives every flag its stored value (false when the stored value
\* lacks it, its previous value when nothing readable is stored), and a flag
\* the user has not touched has the stored value, else the default false.
C13_LoadingCompletes ==
  /\ <>[](~hooks.isLoadingSettings /\ ~rendered.hooks.isLoadingSettings)
  /\ [](net.settingsFetch \in FetchFailures \cup {"ok"} => ~hooks.isLoadingSettings)
  /\ [](net.settingsFetch \in FetchFailures =>
          /\ hooks.tenantSearchSettings = NULL
          /\ Resolved => history.loaded # NotLoaded
          /\ \A flag \in Flags :
               history.loaded # NotLoaded /\ history.user[flag] = {}
                 => hooks[flag] = LoadedFlag(history.loaded, flag, FALSE))
  /\ [][ net.settingsFetch \in FetchFailures /\ history'.loaded # history.loaded =>
           \A flag \in Flags :
             hooks'[flag] = LoadedFlag(history'.loaded, flag, hooks[flag]) ]_vars

\* C13 witness: the fetch of a tenant with a settings reference was answered
\* with status 500; loading has ended, no tenant settings are recorded, the
\* stored isBreadth = true is in effect and rerankEnabled, not stored, is false.
C13_Witness ==
  /\ props.tenant.searchSettingsId # NoSettingsId
  /\ net.settingsFetch = "500"
  /\ Resolved /\ ~NeedsRender
  /\ hooks.tenantSearchSettings = NULL
  /\ history.loaded = JsonText(JsonObj([isBreadth |-> TRUE]))
  /\ hooks.isBreadth /\ ~hooks.rerankEnabled

\* a stored chatSettings text that is not parseable, or whose JSON value is
\* not an object
Malformed(stored) ==
  \/ stored.tag = "garbage"
  \/ stored.tag = "json" /\ stored.val.t \in {"null", "prim"}

\* C14 (as claimed): the load step that reads a malformed chatSettings value
\* leaves the three flags and the selected model at the values they had.
C14_Claim ==
  [][ history'.loaded # history.loaded /\ Malformed(history'.loaded) =>
        \A k \in Flags \cup {"selectedModel"} : hooks'[k] = hooks[k] ]_vars

-----------------------------------------------------------------------------
(* Claims on model selection (ModelSpec) *)

\* C8: the effects of a render whose selected model is not in the
\* enabled-model list (from the initial model, a loaded selectedModel, a user
\* change or a change of the list) leave the first entry of the list as the
\* selected model, and with a non-empty list the selected model eventually
\* is, and stays, in the list.
C8_FallsBackToFirstEnabled ==
  /\ [][ /\ flush.pending /\ ~flush'.pending
         /\ Len(rendered.enabledModels) > 0
         /\ rendered.hooks.selectedModel \notin Range(rendered.enabledModels)
         => hooks'.selectedModel = rendered.enabledModels[1] ]_vars
  /\ [](~mounted /\ Len(props.tenant.enabledModels) > 0
          => hooks.selectedModel \in Range(props.tenant.enabledModels))
  /\ <>[](Len(props.tenant.enabledModels) > 0
            => hooks.selectedModel \in Range(props.tenant.enabledModels))

\* C8 witness: a stored selectedModel that is no enabled model was loaded,
\* the list then changed to exclude the selected model, and the selected
\* model is now the first entry of the new list, persisted as such.
C8_Witness ==
  /\ Idle
  /\ history.loaded = JsonText(JsonObj([selectedModel |-> "legacy"]))
  /\ budget.list < MaxListChanges
  /\ props.tenant.enabledModels = <<"claude">>
  /\ props.initialModel = "gpt-4"
  /\ hooks.selectedModel = "claude"
  /\ localStorage = JSONstringify(FALSE, FALSE, FALSE, "claude")

-----------------------------------------------------------------------------
(* Claims on chat orchestration (ChatSpec) *)

Subs == 1..Len(net.subs)

\* C5 (as claimed): every call of handleSubmit has appended a user entry and
\* started a submission, and every submission whose stream has ended has
\* added exactly one assistant entry.
C5_Claim ==
  /\ history.calls = Len(net.subs)
  /\ \A i \in Subs :
       net.subs[i].state \in {"done", "done-empty"} \cup FailedStates
         => net.subs[i].added = 1

\* C5 (amended): a call of handleSubmit whose model has a provider starts one
\* submission and makes the transcript the one of the last render with
\* exactly one user entry appended, a call whose model has none changes
\* nothing; a submission adds exactly one assistant entry, with the content
\* of its stream, to the transcript as it is when the stream ends with a
\* valid object, and none when it ends without one or fails: never more than
\* one.
C5_OneAssistantEntryPerCompletedStream ==
  /\ [](\A i \in Subs :
          net.subs[i].added = IF net.subs[i].state = "done" THEN 1 ELSE 0)
  /\ [][ /\ history'.calls # history.calls =>
              IF HasProvider(rendered.hooks.selectedModel)
                THEN /\ Len(net'.subs) = Len(net.subs) + 1
                     /\ hooks'.messages =
                          Append(rendered.hooks.messages,
                                 UserMessage(net'.subs[Len(net'.subs)].payload.content))
                ELSE /\ net'.subs = net.subs
                     /\ hooks'.messages = hooks.messages
         /\ \A i \in Subs :
              net'.subs[i].state # net.subs[i].state =>
                IF net'.subs[i].state = "done"
                  THEN /\ Len(hooks'.messages) = Len(hooks.messages) + 1
                       /\ SubSeq(hooks'.messages, 1, Len(hooks.messages)) = hooks.messages
                       /\ hooks'.messages[Len(hooks'.messages)].role = "assistant"
                       /\ hooks'.messages[Len(hooks'.messages)].content = Reply(i)
                  ELSE hooks'.messages = hooks.messages ]_vars

\* C5 witness: one submission has completed and added its assistant entry
\* after its user entry, another one has failed and added none.
C5_Witness ==
  /\ Idle
  /\ \E i, j \in Subs :
       /\ net.subs[i].state = "done" /\ net.subs[i].added = 1
       /\ net.subs[j].state \in FailedStates /\ net.subs[j].added = 0
  /\ Len(SelectSeq(hooks.messages, LAMBDA m : m.role = "user")) = 2
  /\ Len(SelectSeq(hooks.messages, LAMBDA m : m.role = "assistant")) = 1

\* C6: a submission whose request or stream fails appends no assistant entry,
\* at the failure or later, and the failure leaves the transcript, with the
\* user entry appended at submit time, as it is.
C6_FailureLeavesTranscript ==
  /\ [](\A i \in Subs : net.subs[i].state \in FailedStates => net.subs[i].added = 0)
  /\ [][ \A i \in Subs :
           net.subs[i].state \notin FailedStates /\ net'.subs[i].state \in FailedStates
             => hooks'.messages = hooks.messages ]_vars

\* C6 witness: a stream broke after its headers had set the pending message;
\* the transcript ends with the user entry of that submission and holds no
\* entry with the content of that stream.
C6_Witness ==
  /\ Idle
  /\ \E i \in Subs :
       /\ net.subs[i].state = "failed-stream"
       /\ hooks.pendingMessage # NULL
       /\ ~hooks.isLoading
       /\ Len(hooks.messages) > 0
       /\ hooks.messages[Len(hooks.messages)] = UserMessage(net.subs[i].payload.content)
       /\ \A k \in 1..Len(hooks.messages) : hooks.messages[k].content # Reply(i)

\* the entries the component shows, before the cached sources are merged
ShownPlain(messages) == SelectSeq(messages, LAMBDA m : m.role \in {"user", "assistant"})

SourcesOnlyById(messages, cache) ==
  LET plain == ShownPlain(messages)
      shown == MessagesWithSources(messages, cache)
  IN  /\ Len(shown) = Len(plain)
      /\ \A k \in DOMAIN cache : cache[k] = ServerSources(k)
      /\ \A i \in 1..Len(plain) :
           IF plain[i].role = "assistant" /\ plain[i].id # UNDEFINED
              /\ plain[i].id \in DOMAIN cache
             THEN shown[i] = [plain[i] EXCEPT !.sources = ServerSources(plain[i].id)]
             ELSE shown[i] = plain[i]

\* C7: the sources cached under a message id are the ones fetched for that
\* id, and they are shown on the assistant entries with that id only: every
\* other entry, and every entry without an id, is shown with its own sources.
C7_SourcesOnlyOnMatchingId ==
  /\ SourcesOnlyById(hooks.messages, hooks.sourceCache)
  /\ SourcesOnlyById(rendered.hooks.messages, rendered.hooks.sourceCache)

\* C7 witness: the sources of m1 are cached; the entry stamped m1 shows them
\* and the loaded entry m0 shows its own.
C7_Witness ==
  /\ Idle
  /\ DOMAIN hooks.sourceCache = {"m1"}
  /\ LET shown == MessagesWithSources(hooks.messages, hooks.sourceCache)
     IN  /\ \E i \in 1..Len(shown) : shown[i].id = "m0" /\ shown[i].sources = <<"s0">>
         /\ \E i \in 1..Len(shown) : shown[i].id = "m1" /\ shown[i].sources = <<"m1">>
         /\ \E i \in 1..Len(shown) : shown[i].role = "user"

\* C12: the step in which the response of a submission arrives without an
\* x-message-id ends that submission at the assertion: the pending-message
\* record keeps the value it had, no source fetch is started, the transcript
\* is left as it is and loading ends; such a submission never records a
\* model and never adds an assistant entry.
C12_MissingIdFailsAtAssert ==
  /\ [][ \A i \in Subs :
           net.subs[i].state = "fetching" /\ net'.subs[i].state = "failed-assert" =>
             /\ hooks'.pendingMessage = hooks.pendingMessage
             /\ hooks'.messages = hooks.messages
             /\ net'.sourceFetch = net.sourceFetch
             /\ ~hooks'.isLoading ]_vars
  /\ [](\A i \in Subs :
          net.subs[i].state = "failed-assert" =>
            /\ net.subs[i].added = 0
            /\ net.subs[i].model = UNDEFINED
            /\ \A k \in 1..Len(hooks.messages) : hooks.messages[k].content # Reply(i)
            /\ hooks.pendingMessage # NULL => hooks.pendingMessage.id # MsgId(i))

\* C12 witness: the response of one submission set the pending record, the
\* response of another arrived without an id, and the pending record still
\* is the one of the first.
C12_Witness ==
  /\ Idle
  /\ \E i, j \in Subs :
       /\ i # j
       /\ net.subs[i].state = "failed-assert"
       /\ net.subs[j].state = "streaming"
       /\ hooks.pendingMessage = [id |-> MsgId(j), model |-> net.subs[j].model]
       /\ Len(SelectSeq(hooks.messages, LAMBDA m : m.role = "assistant")) = 0

\* no request of a submission is in flight and no render is pending
Quiescent ==
  /\ Idle
  /\ \A i \in Subs : net.subs[i].state \notin {"fetching", "streaming"}

\* the transcript entries a stream appended: the assistant entries with the
\* content of the stream of submission i
EntriesOf(i) ==
  {k \in 1..Len(hooks.messages) :
     hooks.messages[k].role = "assistant" /\ hooks.messages[k].content = Reply(i)}

\* C15 (as claimed): once no stream is loading any more and the renders have
\* settled, the pending-message record set by a response is null again, and
\* the assistant entry of every completed stream carries an id.
C15_Claim ==
  Quiescent =>
    /\ hooks.pendingMessage = NULL
    /\ \A i \in Subs : \A k \in EntriesOf(i) : hooks.messages[k].id # UNDEFINED

\* C16 (as claimed): an id stamped on the assistant entry of the stream of
\* submission i is the x-message-id of the response to submission i.
C16_Claim ==
  \A i \in Subs : \A k \in EntriesOf(i) :
    hooks.messages[k].id # UNDEFINED => hooks.messages[k].id = MsgId(i)

\* C17 (as claimed): the assistant entry of the stream of submission i has
\* the content of that stream, no sources, and the model of the x-model
\* header of the response to submission i.
C17_Claim ==
  \A i \in Subs : \A k \in EntriesOf(i) :
    /\ hooks.messages[k].sources = <<>>
    /\ hooks.messages[k].model # UNDEFINED
    /\ hooks.messages[k].model = net.subs[i].model

\* s is an initial part of t
IsPrefix(s, t) == Len(s) <= Len(t) /\ SubSeq(t, 1, Len(s)) = s

\* t is s with an id put on its last entry, an assistant entry
StampOfLast(s, t) ==
  /\ Len(s) > 0 /\ Len(t) = Len(s)
  /\ s[Len(s)].role = "assistant"
  /\ t = [s EXCEPT ![Len(s)].id = t[Len(s)].id]

\* C18 (as claimed): every step leaves the transcript as it is, extends it,
\* or stamps an id on its last assistant entry.
C18_Claim ==
  [][ \/ IsPrefix(hooks.messages, hooks'.messages)
      \/ StampOfLast(hooks.messages, hooks'.messages) ]_vars

-----------------------------------------------------------------------------
(* Claims on the payload of a submission (PayloadSpec) *)

\* C19 (as claimed): the payload of every submission, the one of the initial
\* message at mount included, carries the tenant's value for every flag of
\* which the tenant's settings disable the override.
C19_Claim ==
  \A i \in Subs : \A flag \in Flags :
    ~server.settings[OverrideKey(flag)]
      => net.subs[i].payload[flag] = server.settings[flag]

-----------------------------------------------------------------------------
(* Claims on tenant setup (SetupSpec) *)

Authenticated(r) == db.requests[r].session \in Users

\* the name of the body is a string that is not empty after trimming
ValidName(r) ==
  /\ "name" \in DOMAIN db.requests[r].body
  /\ Trim(db.requests[r].body.name) # <<>>

\* the name of the body is a string that is empty or whitespace only
BlankName(r) ==
  /\ "name" \in DOMAIN db.requests[r].body
  /\ \A i \in 1..Len(db.requests[r].body.name) : db.requests[r].body.name[i] \in Whitespace

\* the requests that have created their tenant and profile
Created == {r \in Requests : db.requests[r].tenantId # 0}

\* C9: a POST of an authenticated user with a name that is not empty after
\* trimming ends with the id of a tenant it created, under the trimmed name,
\* with one profile of that user in it; each such request creates exactly one
\* tenant and one profile, and its setCurrentProfileId step makes that
\* profile the current profile of that user and of no other user.
C9_SetupCreatesTenantAndProfile ==
  /\ [](/\ Cardinality(db.tenants) = Cardinality(Created)
        /\ Cardinality(db.profiles) = Cardinality(Created)
        /\ \A r \in Requests :
             Authenticated(r) /\ ValidName(r) /\ db.requests[r].pc = "done" =>
               LET q == db.requests[r] IN
               /\ q.response = [status |-> "ok", id |-> q.tenantId]
               /\ [id |-> q.tenantId, name |-> Trim(q.body.name)] \in db.tenants
               /\ [id |-> q.profileId, tenantId |-> q.tenantId, userId |-> q.session]
                    \in db.profiles
               /\ \E r2 \in Requests :
                    /\ db.requests[r2].session = q.session
                    /\ db.requests[r2].pc \in {"respond", "done"}
                    /\ db.current[q.session] = db.requests[r2].profileId
               /\ (\A r2 \in Requests \ {r} : db.requests[r2].session # q.session)
                    => db.current[q.session] = q.profileId)
  /\ [][ \A r \in Requests :
           db.requests[r].pc = "setCurrent" /\ db'.requests[r].pc = "respond" =>
             /\ db'.current[db.requests[r].session] = db.requests[r].profileId
             /\ \A u \in Users \ {db.requests[r].session} : db'.current[u] = db.current[u]
             /\ db'.tenants = db.tenants /\ db'.profiles = db.profiles ]_vars

\* C9 witness: user u1 posted the name "a" padded with a space, an NBSP and a
\* line feed and got the id of the tenant "a";
\* the profile created with it is the current profile of u1.
C9_Witness ==
  \E r \in Requests :
    LET q == db.requests[r] IN
    /\ q.session = "u1" /\ q.body = [name |-> <<32, 97, 160, 10>>]
    /\ q.pc = "done" /\ q.response = [status |-> "ok", id |-> q.tenantId]
    /\ [id |-> q.tenantId, name |-> <<97>>] \in db.tenants
    /\ db.current["u1"] = q.profileId /\ q.profileId # NoProfile

\* C10: a POST of an authenticated user whose name is empty or whitespace
\* only ends with a ZodError, never reaches createTenant or
\* setCurrentProfileId, and none of its steps changes the tenants, the
\* profiles or any current-profile pointer.
C10_BlankNameRejected ==
  /\ [](\A r \in Requests :
          Authenticated(r) /\ BlankName(r) =>
            /\ db.requests[r].pc \in {"session", "parse", "done"}
            /\ db.requests[r].tenantId = 0 /\ db.requests[r].profileId = 0
            /\ db.requests[r].pc = "done"
                 => db.requests[r].response = [status |-> "ZodError", id |-> 0])
  /\ [][ \A r \in Requests :
           Authenticated(r) /\ BlankName(r) /\ db'.requests[r] # db.requests[r] =>
             /\ db'.tenants = db.tenants
             /\ db'.profiles = db.profiles
             /\ db'.current = db.current ]_vars

\* C10 witness: u1 has a current profile from an earlier setup; a later POST
\* of u1 with a name of one tab ended with a ZodError and the pointer, the
\* tenants and the profiles are those of the earlier setup.
C10_Witness ==
  \E r, r0 \in Requests :
    /\ db.requests[r0].pc = "done" /\ db.requests[r0].response.status = "ok"
    /\ db.requests[r0].session = "u1"
    /\ db.requests[r].session = "u1"
    /\ db.requests[r].body = [name |-> <<9>>]
    /\ db.requests[r].pc = "done" /\ db.requests[r].response.status = "ZodError"
    /\ db.current["u1"] = db.requests[r0].profileId
    /\ Cardinality(db.tenants) = 1 /\ Cardinality(db.profiles) = 1

\* C11: a POST without a valid session never gets past the session step: it
\* ends with the rejection whatever its body is, its body is never parsed, it
\* never reaches createTenant or setCurrentProfileId, and none of its steps
\* changes the tenants, the profiles or a current-profile pointer; every
\* request past the session step is one of an authenticated user.
C11_UnauthenticatedRejectedFirst ==
  /\ [](\A r \in Requests :
          /\ ~Authenticated(r) =>
               /\ db.requests[r].pc \in {"session", "done"}
               /\ db.requests[r].name = <<>>
               /\ db.requests[r].tenantId = 0 /\ db.requests[r].profileId = 0
               /\ db.requests[r].pc = "done"
                    => db.requests[r].response = [status |-> "unauthenticated", id |-> 0]
          /\ db.requests[r].pc \in {"parse", "create", "setCurrent", "respond"}
               => Authenticated(r))
  /\ [][ \A r \in Requests :
           ~Authenticated(r) /\ db'.requests[r] # db.requests[r] =>
             /\ db'.tenants = db.tenants
             /\ db'.profiles = db.profiles
             /\ db'.current = db.current
             /\ db'.returned = db.returned ]_vars

\* C11 witness: a POST without a session and with a valid name was rejected,
\* and so was one with a body without a name; nothing was created.
C11_Witness ==
  \E r1, r2 \in Requests :
    /\ db.requests[r1].session = NoSession /\ db.requests[r1].body = [name |-> <<97>>]
    /\ db.requests[r2].session = NoSession /\ db.requests[r2].body = [other |-> TRUE]
    /\ db.requests[r1].pc = "done" /\ db.requests[r1].response.status = "unauthenticated"
    /\ db.requests[r2].pc = "done" /\ db.requests[r2].response.status = "unauthenticated"
    /\ db.tenants = {} /\ db.profiles = {}
    /\ \A u \in Users : db.current[u] = NoProfile

\* the last request of user u that was answered with a tenant id
LastReturned(u) ==
  LET mine == SelectSeq(db.returned, LAMBDA r : db.requests[r].session = u)
  IN  mine[Len(mine)]

\* C20 (as claimed): once every request has finished, the current profile of
\* a user is the profile of the tenant returned by the request of that user
\* that completed last, and the profile of every tenant created has been the
\* current profile of its user at some point.
C20_Claim ==
  (\A r \in Requests : db.requests[r].pc = "done") =>
    /\ \A u \in Users :
         (\E r \in Requests : db.requests[r].session = u /\ db.requests[r].tenantId # 0)
           => db.current[u] = db.requests[LastReturned(u)].profileId
    /\ \A q \in db.profiles : q.id \in db.everCurrent

====
